---- MODULE Spec2Model ----
(***************************************************************************)
(* Model of the investor-fee-distributor program: the `initialize` and     *)
(* `distribute_fees` instructions, the DistributionPolicy and              *)
(* DistributionProgress accounts, the treasury and the recipients' token   *)
(* accounts.  One `distribute_fees` transaction is one step: the handler   *)
(* runs on an in-memory copy of the accounts and the transaction either    *)
(* returns Ok, and the copy is stored, or returns an error, and the        *)
(* accounts keep the values they had before the transaction.               *)
(***************************************************************************)
EXTENDS Integers, Sequences, FiniteSets, TLC

(* ------------------------------ constants ------------------------------ *)

SECONDS_PER_DAY == 86400

BASIS_POINTS_DIVISOR == 10000

MAX_PAGE_SIZE == 50

(* ------------------------- integer arithmetic -------------------------- *)

(***************************************************************************)
(* The program computes with u64 and u128.  A number of those types is     *)
(* written here as the sequence of its digits in base 10^4, least          *)
(* significant digit first and without leading zero digits: 0 is <<>>,     *)
(* 100 is <<100>>, 240000 is <<0, 24>>.  Num(n) is the number n, Val(x)    *)
(* the integer a small number x stands for.  Timestamps, indices, counts   *)
(* and basis points of the policy are plain integers.                      *)
(***************************************************************************)
LimbBase == 10 * 1000

RECURSIVE Num(_)
Num(n) == IF n = 0 THEN <<>> ELSE <<n % LimbBase>> \o Num(n \div LimbBase)

RECURSIVE Val(_)
Val(x) == IF x = <<>> THEN 0 ELSE Head(x) + LimbBase * Val(Tail(x))

RECURSIVE Norm(_)
Norm(x) ==
  IF x # <<>> /\ x[Len(x)] = 0 THEN Norm(SubSeq(x, 1, Len(x) - 1)) ELSE x

RECURSIVE LessFrom(_, _, _)
LessFrom(a, b, k) ==
  IF k = 0 THEN FALSE
  ELSE IF a[k] # b[k] THEN a[k] < b[k]
  ELSE LessFrom(a, b, k - 1)

\* a < b
Lt(a, b) == IF Len(a) # Len(b) THEN Len(a) < Len(b) ELSE LessFrom(a, b, Len(a))

\* a <= b
Le(a, b) == ~Lt(b, a)

\* std::cmp::min of two numbers
Least(a, b) == IF Le(a, b) THEN a ELSE b

Limb0(x) == IF x = <<>> THEN 0 ELSE Head(x)

Rest(x) == IF x = <<>> THEN <<>> ELSE Tail(x)

RECURSIVE AddCarry(_, _, _)
AddCarry(a, b, c) ==
  IF a = <<>> /\ b = <<>> THEN Num(c)
  ELSE <<(Limb0(a) + Limb0(b) + c) % LimbBase>>
         \o AddCarry(Rest(a), Rest(b), (Limb0(a) + Limb0(b) + c) \div LimbBase)

\* a + b, of any size
Add(a, b) == AddCarry(a, b, 0)

RECURSIVE SubBorrow(_, _, _)
SubBorrow(a, b, c) ==
  IF a = <<>> THEN <<>>
  ELSE <<(Head(a) - Limb0(b) - c + LimbBase) % LimbBase>>
         \o SubBorrow(Tail(a), Rest(b), IF Head(a) - Limb0(b) - c < 0 THEN 1 ELSE 0)

\* a - b, for a >= b
Sub(a, b) == Norm(SubBorrow(a, b, 0))

RECURSIVE MulCarry(_, _, _)
MulCarry(a, k, c) ==
  IF a = <<>> THEN Num(c)
  ELSE <<(Head(a) * k + c) % LimbBase>>
         \o MulCarry(Tail(a), k, (Head(a) * k + c) \div LimbBase)

\* a * k for a digit k
MulLimb(a, k) == IF k = 0 THEN <<>> ELSE MulCarry(a, k, 0)

Shift(x) == IF x = <<>> THEN <<>> ELSE <<0>> \o x

\* a * b, of any size
RECURSIVE Mul(_, _)
Mul(a, b) ==
  IF b = <<>> THEN <<>> ELSE Add(MulLimb(a, Head(b)), Shift(Mul(a, Tail(b))))

\* the largest digit d in lo..hi-1 with b * d <= cur, given b * lo <= cur
RECURSIVE Digit(_, _, _, _)
Digit(b, cur, lo, hi) ==
  IF hi - lo = 1 THEN lo
  ELSE IF Le(MulLimb(b, (lo + hi) \div 2), cur)
       THEN Digit(b, cur, (lo + hi) \div 2, hi)
       ELSE Digit(b, cur, lo, (lo + hi) \div 2)

\* long division, from the most significant digit of a down: rem is the
\* remainder of the digits already divided
RECURSIVE DivLimbs(_, _, _, _)
DivDigit(a, b, i, cur, q) ==
  DivLimbs(a, b, i - 1, Sub(cur, MulLimb(b, q))) \o <<q>>

DivCur(a, b, i, cur) ==
  DivDigit(a, b, i, cur, IF Lt(cur, b) THEN 0 ELSE Digit(b, cur, 0, LimbBase))

DivLimbs(a, b, i, rem) ==
  IF i = 0 THEN <<>> ELSE DivCur(a, b, i, Norm(<<a[i]>> \o rem))

\* short division by an integer k with k * LimbBase below 2^31
RECURSIVE ShortLimbs(_, _, _, _)
ShortLimbs(a, k, i, r) ==
  IF i = 0 THEN <<>>
  ELSE ShortLimbs(a, k, i - 1, (r * LimbBase + a[i]) % k)
         \o <<(r * LimbBase + a[i]) \div k>>

\* floor(a / b), for b > 0
Div(a, b) ==
  IF Lt(b, Num(200000))
  THEN Norm(ShortLimbs(a, Val(b), Len(a), 0))
  ELSE Norm(DivLimbs(a, b, Len(a), <<>>))

\* 2^64
TWO_64 == Mul(Mul(Num(65536), Num(65536)), Mul(Num(65536), Num(65536)))

\* u64::MAX = 18446744073709551615
U64_MAX == Sub(TWO_64, Num(1))

\* `x as u64` of a u128: the low 64 bits
as_u64(x) == IF Lt(x, TWO_64) THEN x ELSE Sub(x, Mul(Div(x, TWO_64), TWO_64))

\* u64::checked_add returns None
AddOverflows(a, b) == Lt(U64_MAX, Add(a, b))

\* u64::checked_mul returns None
MulOverflows(a, b) == Lt(U64_MAX, Mul(a, b))

\* the u64 sum where overflow is not checked: it wraps around
wrapping_add(a, b) == as_u64(Add(a, b))

\* u64::saturating_sub
saturating_sub(a, b) == IF Le(b, a) THEN Sub(a, b) ELSE <<>>

\* ((a as u128).checked_mul(b as u128)?.checked_div(c as u128)?) as u64, for
\* c > 0.  The product of two u64 fits in u128, so the checked_mul never
\* fails; the cast keeps the low 64 bits of the quotient.
widened_mul_div(a, b, c) == as_u64(Div(Mul(a, b), c))

(* ------------------------------- bounds -------------------------------- *)

\* largest total_investors given to initialize; the investor token accounts
\* are 1..MaxInvestors, the investor at index k of the set owns account k+1
MaxInvestors == 2

\* number of deposits into the treasury
MaxDeposits == 2

\* the clock advances between transactions by half a day
TickStep == SECONDS_PER_DAY \div 2

Accounts == 1..MaxInvestors

\* The lock schedules of the investor set: the locked amount the stream
\* account of each investor holds.  The locked amounts of a schedule add up
\* to the allocation 4 that InitializeArgs passes as Y0.
LockSchedules ==
  { [i \in Accounts |-> Num(IF i = 1 THEN 3 ELSE IF i = 2 THEN 1 ELSE 0)],
    [i \in Accounts |-> Num(IF i = 1 THEN 3 ELSE IF i = 3 THEN 1 ELSE 0)] }

\* amounts of one deposit into the treasury
DepositAmounts == {Num(100)}

\* page_size arguments: invalid (0, 51) and valid
PageSizes == {0, 1, 2, MAX_PAGE_SIZE + 1}

\* the cluster time when the accounts are initialized
StartTime == SECONDS_PER_DAY

\* arguments of initialize: <<total_investor_allocation,
\* investor_fee_share_bps, daily_cap_lamports, min_payout_lamports>>
InitializeArgs ==
  { <<Num(4), 8000, Num(0), Num(0)>>, <<Num(4), 5000, Num(30), Num(20)>>,
    <<Num(0), 8000, Num(0), Num(0)>>, <<Num(4), 10001, Num(0), Num(0)>> }

\* one investor entry of remaining_accounts: the token account of an investor
\* and that investor's stream account; ok = FALSE is an entry whose stream
\* account has less than 16 bytes of data
Entry ==
  [ata : Accounts, ok : {TRUE}] \cup [ata : {1}, ok : {FALSE}]

RECURSIVE SeqsUpTo(_, _)
SeqsUpTo(S, n) ==
  IF n = 0 THEN {<<>>}
  ELSE LET shorter == SeqsUpTo(S, n - 1)
       IN  shorter \cup {Append(s, e) : s \in {t \in shorter : Len(t) = n - 1}, e \in S}

\* the remaining accounts of a call: up to two investor entries, which is a
\* page of the largest valid page_size of PageSizes, and one entry more than a
\* page of one investor
EntrySeqs == SeqsUpTo(Entry, 2)

\* the arguments and remaining accounts of one distribute_fees call; a call
\* with an invalid page_size is modelled without remaining accounts, which
\* the handler does not reach
CallInputs ==
  {c \in PageSizes \X EntrySeqs : c[1] \in 1..MAX_PAGE_SIZE \/ c[2] = <<>>}

Min(a, b) == IF a <= b THEN a ELSE b

(* ------------------------------- state --------------------------------- *)

VARIABLES
  policy,            \* DistributionPolicy account
  progress,          \* DistributionProgress account
  treasury,          \* balance of the program's quote treasury
  investor_balance,  \* balance of each investor token account
  creator_balance,   \* balance of creator_quote_ata
  streams,           \* locked amount held by each investor's stream account
  clock,             \* Clock::unix_timestamp of the latest transaction
  deposits,          \* number of external deposits made
  last,              \* observation of the last distribute_fees transaction
  day_log            \* history of the current day's committed calls

vars == <<policy, progress, treasury, investor_balance, creator_balance,
          streams, clock, deposits, last, day_log>>

(* --------------------------- state.rs ---------------------------------- *)

is_new_day(p, current_ts) ==
  current_ts >= p.last_distribution_ts + SECONDS_PER_DAY

\* the day reset without the new timestamp
start_new_day_stale_ts(p, current_ts) ==
  [p EXCEPT !.current_day_claimed = Num(0),
            !.current_day_distributed_investors = Num(0),
            !.current_day_distributed_creator = Num(0),
            !.carry_over_dust = Num(0),
            !.pagination_cursor = 0,
            !.day_completed = FALSE]

start_new_day(p, current_ts) ==
  [p EXCEPT !.last_distribution_ts = current_ts,
            !.current_day_claimed = Num(0),
            !.current_day_distributed_investors = Num(0),
            !.current_day_distributed_creator = Num(0),
            !.carry_over_dust = Num(0),
            !.pagination_cursor = 0,
            !.day_completed = FALSE]

(* ------------------------ instructions/distribute.rs ------------------- *)

\* claim_fees_from_damm: the claimed amount is the treasury balance loaded
\* with the transaction's accounts
claim_fees_from_damm(treasury_amount) == treasury_amount

\* token::transfer fails when the source holds less than the amount
transfer_fails(source_balance, amount) == Lt(source_balance, amount)

calculate_locked_fraction(locked_total, y0) ==
  IF y0 = Num(0) THEN Num(0)
  ELSE Least(widened_mul_div(locked_total, Num(BASIS_POINTS_DIVISOR), y0),
             Num(BASIS_POINTS_DIVISOR))

\* read_streamflow_locked_amount of the entries passed as remaining
\* accounts: the u64 at offset 8 of each stream account's data
read_streamflow_locked_amount(stream_data, accounts) ==
  [k \in 1..Len(accounts) |->
     [ata |-> accounts[k].ata, ok |-> accounts[k].ok,
      locked |-> IF accounts[k].ok THEN stream_data[accounts[k].ata] ELSE Num(0)]]

\* first loop of distribute_to_investors: the locked amount of each stream
\* account, then checked_add into total_locked
RECURSIVE read_locked_amounts(_, _, _)
read_locked_amounts(page, i, total_locked) ==
  IF i > Len(page) THEN [err |-> "Ok", total_locked |-> total_locked]
  ELSE IF ~page[i].ok
    THEN [err |-> "InvalidStreamAccount", total_locked |-> total_locked]
  ELSE IF AddOverflows(total_locked, page[i].locked)
    THEN [err |-> "ArithmeticOverflow", total_locked |-> total_locked]
  ELSE read_locked_amounts(page, i + 1, Add(total_locked, page[i].locked))

investor_weight(locked, total_locked) ==
  widened_mul_div(locked, Num(BASIS_POINTS_DIVISOR), total_locked)

investor_payout(distributable, weight) ==
  widened_mul_div(distributable, weight, Num(BASIS_POINTS_DIVISOR))

\* the cap applied to each page, without what the day has already paid
remaining_cap_per_page(pol, p) ==
  IF Lt(Num(0), pol.daily_cap_lamports) THEN pol.daily_cap_lamports ELSE U64_MAX

remaining_cap(pol, p) ==
  IF Lt(Num(0), pol.daily_cap_lamports)
  THEN saturating_sub(pol.daily_cap_lamports, p.current_day_distributed_investors)
  ELSE U64_MAX

\* second loop of distribute_to_investors; acc carries available,
\* total_distributed, investors_paid, the balances moved by the transfers
\* executed so far, and whether the loop has hit `break`
RECURSIVE pay_investors(_, _, _, _, _, _)
pay_investors(page, i, total_locked, distributable, min_payout, acc) ==
  IF i > Len(page) \/ acc.stopped \/ acc.err # "Ok" THEN acc
  ELSE
    LET locked == page[i].locked
        weight == investor_weight(locked, total_locked)
        payout == investor_payout(distributable, weight)
        to == page[i].ata
        moved == [acc EXCEPT
                    !.treasury = Sub(@, payout),
                    !.investor_balance = [@ EXCEPT ![to] = Add(@, payout)],
                    !.transfers = @ \cup (IF Lt(Num(0), payout) THEN {to} ELSE {})]
    IN  IF locked = Num(0)
          THEN pay_investors(page, i + 1, total_locked, distributable, min_payout, acc)
        ELSE IF Lt(payout, min_payout)
          THEN pay_investors(page, i + 1, total_locked, distributable, min_payout, acc)
        ELSE IF Lt(acc.available, payout)
          THEN [acc EXCEPT !.stopped = TRUE]
        ELSE IF transfer_fails(acc.treasury, payout)
          THEN [acc EXCEPT !.err = "InsufficientFunds"]
        ELSE IF AddOverflows(acc.total_distributed, payout)
          THEN [moved EXCEPT !.err = "ArithmeticOverflow",
                             !.available = saturating_sub(@, payout)]
        ELSE pay_investors(page, i + 1, total_locked, distributable, min_payout,
               [moved EXCEPT !.available = saturating_sub(@, payout),
                             !.total_distributed = Add(@, payout),
                             !.investors_paid = @ + 1])

\* a page without locked tokens is an error
skip_distribution_failing(acc0, p) == [acc0 EXCEPT !.err = "NoLockedTokens"]

\* if total_locked == 0: nothing is distributed and the dust stays
skip_distribution(acc0, p) == [acc0 EXCEPT !.available = p.carry_over_dust]

\* distribute_to_investors over the page's entries.  overflow_checks is the
\* build's setting for the unchecked `distributable + carry_over_dust`:
\* a panic when set, a wrapped sum otherwise.
distribute_to_investors(pol, p, treasury_balance, balances, page, overflow_checks) ==
  LET read == read_locked_amounts(page, 1, Num(0))
      total_locked == read.total_locked
      acc0 == [err |-> "Ok", stopped |-> FALSE, available |-> Num(0),
               total_distributed |-> Num(0), investors_paid |-> 0,
               treasury |-> treasury_balance, investor_balance |-> balances,
               transfers |-> {}, total_locked |-> total_locked,
               distributable |-> Num(0)]
      f_locked == calculate_locked_fraction(total_locked, pol.total_investor_allocation)
      eligible_bps == Least(Num(pol.investor_fee_share_bps), f_locked)
      investor_fee_quote == Div(Mul(p.current_day_claimed, eligible_bps),
                                Num(BASIS_POINTS_DIVISOR))
      distributable == Least(investor_fee_quote, remaining_cap(pol, p))
      wraps == AddOverflows(distributable, p.carry_over_dust)
      available == wrapping_add(distributable, p.carry_over_dust)
  IN  IF read.err # "Ok" THEN [acc0 EXCEPT !.err = read.err]
      ELSE IF total_locked = Num(0) THEN skip_distribution(acc0, p)
      ELSE IF MulOverflows(p.current_day_claimed, eligible_bps)
        THEN [acc0 EXCEPT !.err = "ArithmeticOverflow"]
      ELSE IF wraps /\ overflow_checks THEN [acc0 EXCEPT !.err = "Panic"]
      ELSE pay_investors(page, 1, total_locked, distributable,
                         pol.min_payout_lamports,
                         [acc0 EXCEPT !.available = available,
                                      !.distributable = distributable])

\* the remainder left in the treasury
no_remainder_to_creator(p, treasury_amount, treasury_balance) ==
  [err |-> "Ok", amount |-> Num(0)]

\* the whole treasury swept to the creator
sweep_treasury_to_creator(p, treasury_amount, treasury_balance) ==
  [err |-> "Ok", amount |-> treasury_balance]

\* distribute_remainder_to_creator: treasury_amount is ctx.accounts.treasury
\* .amount, the balance deserialized when the transaction started;
\* treasury_balance is the balance the transfer is made from.  Returns the
\* amount and whether the transfer failed.
distribute_remainder_to_creator(p, treasury_amount, treasury_balance) ==
  LET remainder == saturating_sub(p.current_day_claimed,
                                  p.current_day_distributed_investors)
      transfer_amount == Least(remainder, treasury_amount)
  IN  IF treasury_amount = Num(0) THEN [err |-> "Ok", amount |-> Num(0)]
      ELSE IF Lt(Num(0), transfer_amount)
              /\ transfer_fails(treasury_balance, transfer_amount)
        THEN [err |-> "InsufficientFunds", amount |-> Num(0)]
      ELSE [err |-> "Ok", amount |-> transfer_amount]

\* every page_size accepted
valid_page_size_any(page_size) == TRUE

\* require!(page_size > 0 && page_size <= MAX_PAGE_SIZE, InvalidPageSize)
valid_page_size(page_size) == page_size > 0 /\ page_size <= MAX_PAGE_SIZE

\* a new day opened whatever the cursor
first_page_unchecked(p) == TRUE

\* require!(progress.pagination_cursor == 0, NotFirstPage)
first_page(p) == p.pagination_cursor = 0

\* the branch without its day_completed check
continue_error_clock_only(p, current_ts) ==
  IF ~(current_ts >= p.last_distribution_ts) THEN "TooSoonToDistribute" ELSE "Ok"

\* the two require! of the branch that continues the pagination of a day
continue_error(p, current_ts) ==
  IF p.day_completed THEN "DayAlreadyCompleted"
  ELSE IF ~(current_ts >= p.last_distribution_ts) THEN "TooSoonToDistribute"
  ELSE "Ok"

\* the cursor set back to 0 when the page reaches the end of the set
end_index_rewound(start_idx, page_size, total_investors) ==
  IF start_idx + page_size >= total_investors THEN 0 ELSE start_idx + page_size

\* the page end without the clamp to total_investors
end_index_unclamped(start_idx, page_size, total_investors) ==
  start_idx + page_size

end_index(start_idx, page_size, total_investors) ==
  Min(start_idx + page_size, total_investors)

is_last_page(end_idx, p) == end_idx >= p.total_investors

\* The accounts a transaction works on.
AccountState(p, t, ib, cb) ==
  [progress |-> p, treasury |-> t, investor_balance |-> ib, creator_balance |-> cb]

\* handler, from the call of distribute_to_investors on: d is what the call
\* returned, p1 the Progress it worked on, r the in-memory accounts after
\* the new-day branch, treasury_amount the treasury balance deserialized at
\* the start of the transaction.
page_outcome(r, p1, end_idx, d, treasury_amount) ==
  LET paid == [r EXCEPT !.treasury = d.treasury,
                        !.investor_balance = d.investor_balance,
                        !.transfers = d.transfers,
                        !.total_locked = d.total_locked,
                        !.distributable = d.distributable,
                        !.page_read = TRUE]
      p2 == [p1 EXCEPT
               !.current_day_distributed_investors = Add(@, d.total_distributed),
               !.carry_over_dust = d.available,
               !.pagination_cursor = end_idx]
      c == distribute_remainder_to_creator(p2, treasury_amount, d.treasury)
      p3 == [p2 EXCEPT !.current_day_distributed_creator = c.amount,
                       !.day_completed = TRUE]
  IN  IF d.err # "Ok"
        THEN [paid EXCEPT !.err = d.err]
      ELSE IF AddOverflows(p1.current_day_distributed_investors, d.total_distributed)
        THEN [paid EXCEPT !.err = "ArithmeticOverflow"]
      ELSE IF ~is_last_page(end_idx, p2)
        THEN [paid EXCEPT !.progress = p2, !.total_distributed = d.total_distributed]
      ELSE IF c.err # "Ok"
        THEN [paid EXCEPT !.progress = p2, !.err = c.err,
                          !.total_distributed = d.total_distributed,
                          !.remainder_invoked = TRUE]
      ELSE [paid EXCEPT !.progress = p3,
                        !.treasury = Sub(@, c.amount),
                        !.creator_balance = Add(@, c.amount),
                        !.total_distributed = d.total_distributed,
                        !.remainder_invoked = TRUE]

\* the handler from `Calculate pagination bounds`: the bounds of the page,
\* the slice of remaining_accounts, and the page's distribution
handler_page(pol, r, treasury_amount, page_size, accounts, overflow_checks) ==
  LET p1 == r.progress
      start_idx == p1.pagination_cursor
      end_idx == end_index(start_idx, page_size, p1.total_investors)
      count == end_idx - start_idx
      page == SubSeq(accounts, 1, count)
  IN  IF ~(start_idx < p1.total_investors)
        THEN [r EXCEPT !.err = "InvalidPaginationCursor"]
      ELSE IF Len(accounts) < count
        THEN [r EXCEPT !.err = "Panic"]
      ELSE page_outcome(r, p1, end_idx,
                        distribute_to_investors(pol, p1, r.treasury,
                                                r.investor_balance, page,
                                                overflow_checks),
                        treasury_amount)

\* handler: the result of running distribute_fees on the accounts `a` at
\* current_ts: the error (or "Ok") and the accounts as the run left them
\* when it returned.
handler(pol, a, current_ts, page_size, accounts, overflow_checks) ==
  LET r0 == [err |-> "Ok",
             progress |-> a.progress,
             treasury |-> a.treasury,
             investor_balance |-> a.investor_balance,
             creator_balance |-> a.creator_balance,
             claim_invoked |-> FALSE,
             reset_done |-> FALSE,
             remainder_invoked |-> FALSE,
             page_read |-> FALSE,
             transfers |-> {},
             total_locked |-> Num(0),
             distributable |-> Num(0),
             total_distributed |-> Num(0)]
      new_day == is_new_day(a.progress, current_ts)
      claimed_amount == claim_fees_from_damm(a.treasury)
      opened == [r0 EXCEPT
                   !.progress = [start_new_day(a.progress, current_ts)
                                   EXCEPT !.current_day_claimed = claimed_amount],
                   !.claim_invoked = TRUE,
                   !.reset_done = TRUE]
  IN  IF ~valid_page_size(page_size)
        THEN [r0 EXCEPT !.err = "InvalidPageSize"]
      ELSE IF new_day
        THEN IF ~first_page(a.progress)
               THEN [r0 EXCEPT !.err = "NotFirstPage"]
               ELSE handler_page(pol, opened, a.treasury, page_size, accounts,
                                 overflow_checks)
      ELSE IF continue_error(a.progress, current_ts) # "Ok"
        THEN [r0 EXCEPT !.err = continue_error(a.progress, current_ts)]
      ELSE handler_page(pol, r0, a.treasury, page_size, accounts, overflow_checks)

\* whatever the run wrote is stored, also when it returned an error
Commit_written(run, before) ==
  AccountState(run.progress, run.treasury, run.investor_balance,
               run.creator_balance)

\* The transaction boundary of distribute_fees: the accounts the run wrote are
\* stored when the instruction returns Ok, and a returned error leaves every
\* account as it was before the transaction.
Commit(run, before) ==
  IF run.err = "Ok"
  THEN AccountState(run.progress, run.treasury, run.investor_balance,
                    run.creator_balance)
  ELSE before

(* ------------------------ instructions/initialize.rs ------------------- *)

\* require!(investor_fee_share_bps <= BASIS_POINTS_DIVISOR, InvalidBasisPoints)
valid_basis_points(investor_fee_share_bps) ==
  investor_fee_share_bps <= BASIS_POINTS_DIVISOR

initial_policy(y0, bps, cap, min_payout) ==
  [total_investor_allocation |-> y0,
   investor_fee_share_bps |-> bps,
   daily_cap_lamports |-> cap,
   min_payout_lamports |-> min_payout]

initial_progress(total_investors) ==
  [last_distribution_ts |-> 0,
   current_day_claimed |-> Num(0),
   current_day_distributed_investors |-> Num(0),
   current_day_distributed_creator |-> Num(0),
   carry_over_dust |-> Num(0),
   pagination_cursor |-> 0,
   day_completed |-> FALSE,
   total_investors |-> total_investors]

(* --------------------------- the state machine ------------------------- *)

NoCall ==
  [called |-> FALSE, err |-> "Ok", valid_page_size |-> FALSE, ts |-> 0,
   before |-> AccountState(initial_progress(0), Num(0),
                           [i \in Accounts |-> Num(0)], Num(0)),
   claim_invoked |-> FALSE, reset_done |-> FALSE, remainder_invoked |-> FALSE,
   page_read |-> FALSE, transfers_done |-> FALSE,
   page_input |-> "unread", page_locked |-> Num(0),
   page_distributable |-> Num(0)]

EmptyDay ==
  [paid_calls |-> [i \in Accounts |-> 0], creator_payouts |-> 0,
   fee_claims |-> 0, pages |-> 0]

\* The accounts after a successful initialize; the treasury is created empty.
Init ==
  \E args \in InitializeArgs, total_investors \in 0..MaxInvestors,
     schedule \in LockSchedules :
    /\ valid_basis_points(args[2])
    /\ policy = initial_policy(args[1], args[2], args[3], args[4])
    /\ streams = schedule
    /\ progress = initial_progress(total_investors)
    /\ treasury = Num(0)
    /\ investor_balance = [i \in Accounts |-> Num(0)]
    /\ creator_balance = Num(0)
    /\ clock = StartTime
    /\ deposits = 0
    /\ last = NoCall
    /\ day_log = EmptyDay

\* the entries the page uses are those of the investor set at indices
\* [pagination_cursor, end)
supplied_in_order(p, page_size, accounts) ==
  LET start_idx == p.pagination_cursor
      end_idx == end_index(start_idx, page_size, p.total_investors)
  IN  /\ Len(accounts) >= end_idx - start_idx
      /\ \A k \in 1..(end_idx - start_idx) : accounts[k].ata = start_idx + k

\* the caller passed more entries than the page uses
surplus_supplied(p, page_size, accounts) ==
  Len(accounts) > end_index(p.pagination_cursor, page_size, p.total_investors)
                    - p.pagination_cursor

\* enough entries for the page, and a well-formed stream account in each
\* entry of remaining_accounts[0..(end_idx - start_idx) * 2], the entries the
\* handler reads
inputs_ok(p, page_size, accounts) ==
  LET start_idx == p.pagination_cursor
      end_idx == end_index(start_idx, page_size, p.total_investors)
  IN  /\ Len(accounts) >= end_idx - start_idx
      /\ \A k \in 1..(end_idx - start_idx) : accounts[k].ok

\* the errors of the require! that precede the use of remaining_accounts
GateErrors ==
  {"InvalidPageSize", "NotFirstPage", "DayAlreadyCompleted",
   "TooSoonToDistribute", "InvalidPaginationCursor"}

\* what the handler found in remaining_accounts: exactly the page's entries
\* ("expected"), the page's entries followed by more ("surplus"), enough
\* entries for the page with well-formed stream accounts but not those of the
\* page ("other"), or too few entries or a malformed stream account among
\* those the page reads ("malformed")
page_input(p, page_size, accounts) ==
  IF ~inputs_ok(p, page_size, accounts) THEN "malformed"
  ELSE IF ~supplied_in_order(p, page_size, accounts) THEN "other"
  ELSE IF surplus_supplied(p, page_size, accounts) THEN "surplus"
  ELSE "expected"

\* the log of the day after a committed call
logged(log, run) ==
  LET base == IF run.reset_done THEN EmptyDay ELSE log
  IN  [paid_calls |-> [i \in Accounts |->
                         base.paid_calls[i] + (IF i \in run.transfers THEN 1 ELSE 0)],
       creator_payouts |-> base.creator_payouts + (IF run.remainder_invoked THEN 1 ELSE 0),
       fee_claims |-> base.fee_claims + (IF run.claim_invoked THEN 1 ELSE 0),
       pages |-> base.pages + 1]

\* The builds that differ on this state: the unchecked sum of distributable
\* (at most current_day_claimed) and carry_over_dust can only exceed u64 when
\* current_day_claimed + carry_over_dust does.
overflow_builds(p) ==
  IF AddOverflows(p.current_day_claimed, p.carry_over_dust) THEN BOOLEAN ELSE {TRUE}

\* The handler reads remaining_accounts[0..(end_idx - start_idx) * 2] and
\* nothing beyond it, so one entry of investor 1, with a well-formed or a
\* malformed stream account, stands for whatever follows the page.
past_the_page(p, page_size, accounts) ==
  LET used == end_index(p.pagination_cursor, page_size, p.total_investors)
                - p.pagination_cursor
  IN  \A k \in 1..Len(accounts) : k > used => (k = used + 1 /\ accounts[k].ata = 1)

\* Clock::get() of a transaction: the cluster time does not run backwards
\* between transactions; the model follows it for one day after StartTime.
CallTimes(t) ==
  {u \in {t, t + TickStep} : u <= StartTime + SECONDS_PER_DAY}

\* distribute_fees: what the transaction leaves in the accounts, given the
\* accounts it loaded and what the handler's run returned; last and day_log
\* record the call.
distribute_fees(current_ts, page_size, accounts, before, run) ==
  LET after == Commit(run, before)
  IN  /\ progress' = after.progress
      /\ treasury' = after.treasury
      /\ investor_balance' = after.investor_balance
      /\ creator_balance' = after.creator_balance
      /\ last' = [called |-> TRUE, err |-> run.err,
                  valid_page_size |-> page_size \in 1..MAX_PAGE_SIZE,
                  ts |-> current_ts, before |-> before,
                  claim_invoked |-> run.claim_invoked,
                  reset_done |-> run.reset_done,
                  remainder_invoked |-> run.remainder_invoked,
                  page_read |-> run.page_read,
                  transfers_done |-> run.transfers # {},
                  page_input |-> IF run.err \in GateErrors THEN "unread"
                                 ELSE page_input(progress, page_size, accounts),
                  page_locked |-> run.total_locked,
                  page_distributable |-> run.distributable]
      /\ day_log' = IF run.err = "Ok" THEN logged(day_log, run) ELSE day_log
      /\ clock' = current_ts
      /\ UNCHANGED <<policy, streams, deposits>>

\* One distribute_fees transaction by any caller.
Distribute ==
  \E current_ts \in CallTimes(clock), call \in CallInputs,
     overflow_checks \in overflow_builds(progress) :
    /\ past_the_page(progress, call[1], call[2])
    /\ distribute_fees(
         current_ts, call[1], call[2],
         AccountState(progress, treasury, investor_balance, creator_balance),
         handler(policy,
                 AccountState(progress, treasury, investor_balance, creator_balance),
                 current_ts, call[1],
                 read_streamflow_locked_amount(streams, call[2]),
                 overflow_checks))

\* Quote tokens arrive in the treasury (accrued fees, or any token transfer
\* into the account).
Deposit ==
  \E amount \in DepositAmounts :
    /\ deposits < MaxDeposits
    /\ treasury' = Add(treasury, amount)
    /\ deposits' = deposits + 1
    /\ UNCHANGED <<policy, progress, investor_balance, creator_balance, streams,
                   clock, last, day_log>>

Next == Distribute \/ Deposit

Spec == Init /\ [][Next]_vars

(* ------------- the calls of one day on initialized accounts -------------- *)

\* arguments of initialize for the payout calculation: the policy of the
\* spec's scenarios without and with a daily cap, a policy whose share is
\* the whole claim, a policy with a payout floor, and a policy with an
\* allocation of 1
PagePolicies ==
  { <<Num(1000000), 8000, Num(0), Num(1000)>>,
    <<Num(1000000), 8000, Num(30000), Num(1000)>>,
    <<Num(4), 10000, Num(0), Num(0)>>, <<Num(4), 8000, Num(0), Num(20)>>,
    <<Num(1), 10000, Num(0), Num(0)>> }

\* 1844674407370956: the least locked amount whose 10000-fold exceeds
\* u64::MAX
LARGE_LOCK == Add(Div(U64_MAX, Num(BASIS_POINTS_DIVISOR)), Num(1))

\* locked amounts of the stream accounts: the scenarios' 400000 and 100000,
\* nothing locked, 3 and 1, 1 and 3, and a stream account that holds
\* LARGE_LOCK
PageLocks ==
  { [i \in Accounts |-> Num(IF i = 1 THEN 400000 ELSE IF i = 2 THEN 100000 ELSE 0)],
    [i \in Accounts |-> Num(0)],
    [i \in Accounts |-> Num(IF i = 1 THEN 3 ELSE IF i = 2 THEN 1 ELSE 0)],
    [i \in Accounts |-> Num(IF i = 1 THEN 1 ELSE IF i = 2 THEN 3 ELSE 0)],
    [i \in Accounts |-> IF i = 1 THEN LARGE_LOCK ELSE Num(0)] }

\* 3 * 10^15
LARGE_CLAIM == Mul(Num(3000000), Num(1000000000))

\* quote tokens claimed for a day: the last one times 7500 exceeds u64::MAX
PageClaims == {Num(100), Num(100000), LARGE_CLAIM}

\* The accounts as initialize left them, with fees in the treasury.
PageInit ==
  \E args \in PagePolicies, locks \in PageLocks, claimed \in PageClaims,
     total_investors \in 1..MaxInvestors :
    /\ policy = initial_policy(args[1], args[2], args[3], args[4])
    /\ streams = locks
    /\ treasury = claimed
    /\ progress = initial_progress(total_investors)
    /\ day_log = EmptyDay
    /\ investor_balance = [i \in Accounts |-> Num(0)]
    /\ creator_balance = Num(0)
    /\ clock = StartTime
    /\ deposits = 0
    /\ last = NoCall

\* the distribute_fees calls of the day, made before the next day is due,
\* nothing reaching the treasury after the fee claim
PageCall == Distribute /\ clock' < StartTime + SECONDS_PER_DAY

PageNext == PageCall

PageSpec == PageInit /\ [][PageNext]_vars

(* --------------- a day of many pages that pay no investor ---------------- *)

\* pages of the day: 10249 * 1800000000000000 exceeds u64::MAX
LongDayInvestors == 10249

\* 2 * 10^15 claimed: 9000 bps of it are 1800000000000000, 9200 bps of it
\* are 1840000000000000, and 9200 times the claim is below u64::MAX
LongDayClaim == Mul(Num(2000000), Num(1000000000))

\* a payout floor between the two: 1820000000000000
LongDayMinPayout == Mul(Num(1820000), Num(1000000000))

\* Accounts as initialize left them: the whole claim is the investors'
\* share, the stream account of investor 1 holds 9000 of the allocation
\* of 10000 and that of investor 2 holds 9200.
LongDayInit ==
  /\ policy = initial_policy(Num(10000), 10000, Num(0), LongDayMinPayout)
  /\ streams = [i \in Accounts |->
                  Num(IF i = 1 THEN 9000 ELSE IF i = 2 THEN 9200 ELSE 0)]
  /\ treasury = LongDayClaim
  /\ progress = initial_progress(LongDayInvestors)
  /\ day_log = EmptyDay
  /\ investor_balance = [i \in Accounts |-> Num(0)]
  /\ creator_balance = Num(0)
  /\ clock = StartTime
  /\ deposits = 0
  /\ last = NoCall

\* One distribute_fees transaction of the day: a page of one investor, with
\* the token account and the stream account of investor 1 as its entry
\* (the handler takes whatever entry it is passed), at an unchanged time.
LongDayCall ==
  \E overflow_checks \in overflow_builds(progress) :
    distribute_fees(
      clock, 1, <<[ata |-> 1, ok |-> TRUE]>>,
      AccountState(progress, treasury, investor_balance, creator_balance),
      handler(policy,
              AccountState(progress, treasury, investor_balance, creator_balance),
              clock, 1,
              read_streamflow_locked_amount(streams, <<[ata |-> 1, ok |-> TRUE]>>),
              overflow_checks))

LongDayNext == LongDayCall

LongDaySpec == LongDayInit /\ [][LongDayNext]_vars

TypeOK ==
  /\ progress.pagination_cursor \in 0..progress.total_investors
  /\ Le(treasury, U64_MAX)
  /\ \A i \in Accounts : Le(investor_balance[i], U64_MAX)

(* ------------------------------- claims -------------------------------- *)

Before == last.before.progress

\* the last call was made when a new day was due
NewDayDue == last.ts >= Before.last_distribution_ts + SECONDS_PER_DAY

\* the last call found the day closed over a non-empty investor set
OnClosedDay ==
  /\ Before.day_completed
  /\ Before.total_investors > 0
  /\ Before.pagination_cursor = Before.total_investors

\* C1: a call with a valid page_size on a closed day, at least 86400 seconds
\* after last_distribution_ts, opens the next day: it is not rejected, the
\* fee claim is invoked, the day fields are reset and a committed call leaves
\* last_distribution_ts = current_time, the claimed amount recorded and the
\* first page processed.
C1_ClosedDayOpensNextDay ==
  (last.called /\ last.valid_page_size /\ OnClosedDay /\ NewDayDue)
    => /\ last.err \notin GateErrors
       /\ last.claim_invoked
       /\ last.reset_done
       /\ last.err = "Ok" =>
            /\ progress.last_distribution_ts = last.ts
            /\ progress.current_day_claimed = last.before.treasury
            /\ progress.pagination_cursor > 0

\* C2: within one day no investor is paid by more than one committed call,
\* and a call that supplies other entries than those at [cursor, end) fails
\* with InvalidPaginationCursor and transfers nothing.
C2_NoInvestorPaidTwice ==
  /\ \A i \in Accounts : day_log.paid_calls[i] <= 1
  /\ (last.called /\ last.page_input = "other")
       => /\ last.err = "InvalidPaginationCursor"
          /\ ~last.transfers_done
          /\ investor_balance = last.before.investor_balance

\* C3: current_day_distributed_investors never exceeds current_day_claimed,
\* nor daily_cap_lamports when a cap is set.
C3_DistributedWithinClaimed ==
  /\ Le(progress.current_day_distributed_investors, progress.current_day_claimed)
  /\ Lt(Num(0), policy.daily_cap_lamports)
       => Le(progress.current_day_distributed_investors,
             Least(progress.current_day_claimed, policy.daily_cap_lamports))

\* C4: with a daily cap set, current_day_distributed_investors never exceeds
\* daily_cap_lamports, across all pages of a day.
C4_CapEnforced ==
  Lt(Num(0), policy.daily_cap_lamports)
    => Le(progress.current_day_distributed_investors, policy.daily_cap_lamports)

\* C4 witness: a capped day whose investors were paid the whole cap, with a
\* further page committed after the cap was used up.
C4_Witness ==
  /\ Lt(Num(0), policy.daily_cap_lamports)
  /\ last.called /\ last.err = "Ok"
  /\ Before.current_day_distributed_investors = policy.daily_cap_lamports
  /\ progress.current_day_distributed_investors = policy.daily_cap_lamports
  /\ day_log.pages >= 2

\* C5: over a whole day the investors receive at most
\* floor(current_day_claimed * investor_fee_share_bps / 10000).
C5_ShareBoundsTheDay ==
  Le(progress.current_day_distributed_investors,
     Div(Mul(progress.current_day_claimed, Num(policy.investor_fee_share_bps)),
         Num(BASIS_POINTS_DIVISOR)))

\* C6: a distribute call that fails leaves Progress, the treasury and every
\* recipient balance as they were, and Progress changes only in a call that
\* returns Ok.
C6_FailedCallChangesNothing ==
  [][/\ (deposits' = deposits /\ last'.err # "Ok")
          => UNCHANGED <<progress, treasury, investor_balance, creator_balance>>
     /\ progress' # progress
          => (last'.called /\ last'.err = "Ok" /\ deposits' = deposits)]_vars

\* C6 witness: a call failed after the new-day reset of Progress had been made
\* in the run, and the stored Progress is not reset.
C6_Witness ==
  /\ last.called /\ last.err # "Ok" /\ last.reset_done
  /\ progress = Before
  /\ progress.last_distribution_ts # last.ts

\* C7: a call made when a new day is due while pagination_cursor > 0 invokes
\* no fee claim and resets no day field, and fails with NotFirstPage once its
\* page_size is accepted; a run that resets the day started from cursor 0.
C7_NoNewDayMidPage ==
  /\ (last.called /\ NewDayDue /\ Before.pagination_cursor > 0)
       => /\ ~last.claim_invoked
          /\ ~last.reset_done
          /\ progress = Before
          /\ last.valid_page_size => last.err = "NotFirstPage"
  /\ (last.called /\ last.reset_done) => Before.pagination_cursor = 0

\* C7 witness: a new day was due in the middle of a started day, and the call
\* was rejected with NotFirstPage.
C7_Witness ==
  /\ last.called /\ last.err = "NotFirstPage"
  /\ ~progress.day_completed
  /\ progress.pagination_cursor > 0
  /\ progress.pagination_cursor < progress.total_investors

\* C8 as stated: after a day is closed, a call with a valid page_size before
\* last_distribution_ts + 86400 fails with TooSoonToDistribute.
C8_ClosedDayTooSoon ==
  (last.called /\ last.valid_page_size /\ Before.day_completed /\ ~NewDayDue)
    => last.err = "TooSoonToDistribute"

\* C8 amended: after a day is closed, a call with a valid page_size before
\* last_distribution_ts + 86400 fails with DayAlreadyCompleted.
C8_ClosedDayAlreadyCompleted ==
  (last.called /\ last.valid_page_size /\ Before.day_completed /\ ~NewDayDue)
    => last.err = "DayAlreadyCompleted"

\* C8 witness: a call on a closed day, later than the day's opening and before
\* 86400 seconds have passed.
C8_Witness ==
  /\ last.called /\ last.valid_page_size
  /\ progress.day_completed
  /\ last.ts > progress.last_distribution_ts
  /\ last.ts < progress.last_distribution_ts + SECONDS_PER_DAY
  /\ last.err = "DayAlreadyCompleted"

\* C9: a committed page that ends before total_investors leaves the day open
\* and pays the creator nothing; the next call of the same day at an unchanged
\* current_time passes every gate and, with the entries of its page,
\* succeeds; the remainder payout runs once per day, in the call that
\* reaches total_investors and closes the day.
C9_PagesThenOneCreatorPayout ==
  /\ (last.called /\ last.err = "Ok"
        /\ progress.pagination_cursor < progress.total_investors)
       => /\ ~progress.day_completed
          /\ ~last.remainder_invoked
          /\ creator_balance = last.before.creator_balance
  /\ (last.called /\ last.valid_page_size /\ ~Before.day_completed
        /\ Before.pagination_cursor > 0
        /\ last.ts = Before.last_distribution_ts)
       => /\ last.err \notin GateErrors
          /\ last.page_input = "expected" => last.err = "Ok"
  /\ day_log.creator_payouts <= 1
  /\ progress.day_completed <=> day_log.creator_payouts = 1
  /\ (last.called /\ last.err = "Ok" /\ last.remainder_invoked)
       => /\ progress.day_completed
          /\ ~Before.day_completed
          /\ progress.pagination_cursor = progress.total_investors

\* C10: pagination_cursor never decreases, except in a call that opens a new
\* day: made at least 86400 seconds after last_distribution_ts, with the fee
\* claim invoked and the day fields reset.
C10_CursorMonotonic ==
  [][\/ progress'.pagination_cursor >= progress.pagination_cursor
     \/ /\ last'.called /\ last'.err = "Ok"
        /\ last'.claim_invoked /\ last'.reset_done
        /\ last'.ts >= progress.last_distribution_ts + SECONDS_PER_DAY
        /\ progress'.last_distribution_ts = last'.ts]_vars

\* C10 witness: the cursor advanced in two committed calls of one day.
C10_Witness ==
  /\ last.called /\ last.err = "Ok"
  /\ ~last.reset_done
  /\ Before.pagination_cursor > 0
  /\ progress.pagination_cursor > Before.pagination_cursor

\* C11: in every reachable state pagination_cursor <= total_investors, and
\* day_completed implies pagination_cursor = total_investors.
C11_CursorWithinSet ==
  /\ progress.pagination_cursor <= progress.total_investors
  /\ progress.day_completed
       => progress.pagination_cursor = progress.total_investors

\* C11 witness: a day closed by its second page, the cursor at
\* total_investors.
C11_Witness ==
  /\ last.called /\ last.err = "Ok" /\ last.remainder_invoked
  /\ progress.day_completed
  /\ Before.pagination_cursor > 0
  /\ progress.pagination_cursor = progress.total_investors
  /\ day_log.pages = 2

(* the page of the last call, as the specification describes it *)

\* the Progress snapshot the page was computed from: the stored one, or the
\* reset one when the call opened a day
DustIn == IF last.reset_done THEN Num(0) ELSE Before.carry_over_dust

DistributedIn ==
  IF last.reset_done THEN Num(0) ELSE Before.current_day_distributed_investors

StartIdx == IF last.reset_done THEN 0 ELSE Before.pagination_cursor

\* the investors of the page of a committed call that supplied the entries
\* at [cursor, end)
PageInvestors == (StartIdx + 1)..progress.pagination_cursor

RECURSIVE LockedSum(_)
LockedSum(S) ==
  IF S = {} THEN Num(0)
  ELSE LET i == CHOOSE j \in S : TRUE IN Add(streams[i], LockedSum(S \ {i}))

TotalLocked == LockedSum(PageInvestors)

\* min(investor_fee_share_bps, min(floor(total_locked * 10000 / Y0), 10000)),
\* the locked fraction being 0 when Y0 = 0
EligibleBps ==
  LET f_locked == IF policy.total_investor_allocation = Num(0) THEN Num(0)
                  ELSE Least(Div(Mul(TotalLocked, Num(10000)),
                                 policy.total_investor_allocation),
                             Num(10000))
  IN  Least(Num(policy.investor_fee_share_bps), f_locked)

\* min(floor(current_day_claimed * eligible_bps / 10000), remaining cap), and
\* 0 for a page without locked tokens
Distributable ==
  LET quote == Div(Mul(progress.current_day_claimed, EligibleBps), Num(10000))
  IN  IF TotalLocked = Num(0) THEN Num(0)
      ELSE IF policy.daily_cap_lamports = Num(0) THEN quote
      ELSE Least(quote, IF Le(DistributedIn, policy.daily_cap_lamports)
                        THEN Sub(policy.daily_cap_lamports, DistributedIn)
                        ELSE Num(0))

\* total_distributed and remaining_dust of the page
TotalDistributed == Sub(progress.current_day_distributed_investors, DistributedIn)

RemainingDust == progress.carry_over_dust

\* the last call committed a page of the entries at [cursor, end)
PageCommitted ==
  /\ last.called /\ last.err = "Ok"
  /\ last.page_input \in {"expected", "surplus"}

\* the last call committed a page
PageDone == last.called /\ last.err = "Ok" /\ last.page_read

\* C12: for every committed page total_distributed + remaining_dust =
\* distributable + carry_over_dust of the snapshot before the call, with the
\* distributable the page computed (0 when total_locked = 0), and
\* remaining_dust >= 0.
C12_PageConservesFunds ==
  PageDone
    => /\ Add(TotalDistributed, RemainingDust)
            = Add(last.page_distributable, DustIn)
       /\ Le(Num(0), RemainingDust)

\* what the last call moved to investor i
Paid(i) == Sub(investor_balance[i], last.before.investor_balance[i])

\* floor(distributable * floor(locked_i * 10000 / total_locked) / 10000)
Payout(i) ==
  Div(Mul(Distributable, Div(Mul(streams[i], Num(10000)), TotalLocked)),
      Num(10000))

\* the page of the spec's scenarios: Y0 = 1000000, locked 400000 and 100000,
\* share 8000 bps, min payout 1000, 100000 claimed by the call
ScenarioPage(cap) ==
  /\ PageCommitted /\ last.reset_done
  /\ policy = initial_policy(Num(1000000), 8000, Num(cap), Num(1000))
  /\ progress.current_day_claimed = Num(100000)
  /\ streams[1] = Num(400000) /\ streams[2] = Num(100000)
  /\ PageInvestors = {1, 2}

\* C13: on a committed page with total_locked > 0 each investor of the page
\* with locked_i > 0 is paid payout_i = floor(distributable * floor(locked_i
\* * 10000 / total_locked) / 10000) when payout_i >= min_payout_lamports and
\* nothing otherwise, distributable being min(floor(claimed * eligible_bps /
\* 10000), remaining cap); the scenario page pays 40000 and 10000 and leaves
\* no dust, and 24000 and 6000 under a cap of 30000.
C13_PayoutFormula ==
  /\ (PageCommitted /\ Lt(Num(0), TotalLocked))
       => \A i \in Accounts :
            Paid(i) = IF /\ i \in PageInvestors
                         /\ Lt(Num(0), streams[i])
                         /\ Le(policy.min_payout_lamports, Payout(i))
                      THEN Payout(i) ELSE Num(0)
  /\ ScenarioPage(0)
       => /\ Paid(1) = Num(40000) /\ Paid(2) = Num(10000)
          /\ RemainingDust = Num(0)
  /\ ScenarioPage(30000)
       => Paid(1) = Num(24000) /\ Paid(2) = Num(6000)

\* C14: the creator is paid only by a committed call whose page reaches
\* total_investors; that call transfers min(current_day_claimed -
\* current_day_distributed_investors saturating at 0 and counting the page's
\* payouts, treasury balance when the transfer is made), stores the amount in
\* current_day_distributed_creator and marks the day completed, also when the
\* amount is 0.
C14_RemainderToCreator ==
  [][LET paid == Sub(creator_balance', creator_balance)
         closing == last'.err = "Ok" /\ last'.remainder_invoked
     IN  deposits' = deposits
           => /\ closing
                   => /\ progress'.pagination_cursor = progress'.total_investors
                      /\ progress'.day_completed
                      /\ paid = Least(saturating_sub(
                                        progress'.current_day_claimed,
                                        progress'.current_day_distributed_investors),
                                      Add(treasury', paid))
                      /\ progress'.current_day_distributed_creator = paid
              /\ ~closing => paid = Num(0)]_vars

\* C14 witness: a call closed a day whose claimed fees had all gone to the
\* investors: nothing was left for the creator and the day is completed.
C14_Witness ==
  /\ last.called /\ last.err = "Ok" /\ last.remainder_invoked
  /\ Lt(Num(0), progress.current_day_claimed)
  /\ creator_balance = last.before.creator_balance
  /\ progress.current_day_distributed_creator = Num(0)
  /\ progress.day_completed

\* C15: a call that supplies fewer or more investor entries than the page
\* takes (end - start) is rejected, with no transfer and Progress unchanged.
C15_EntryCountChecked ==
  (last.called /\ last.page_input = "surplus")
    => /\ last.err # "Ok"
       /\ ~last.transfers_done
       /\ progress = Before

\* C16: a call with page_size = 0 or page_size > MAX_PAGE_SIZE fails with
\* InvalidPageSize before the fee claim, the day reset, any read of the
\* entries and any transfer, whatever the state of Progress; a call with a
\* page_size in 1..MAX_PAGE_SIZE never fails with InvalidPageSize.
C16_PageSizeCheckedFirst ==
  /\ (last.called /\ ~last.valid_page_size)
       => /\ last.err = "InvalidPageSize"
          /\ ~last.claim_invoked /\ ~last.reset_done
          /\ ~last.page_read /\ ~last.transfers_done
          /\ progress = Before
  /\ (last.called /\ last.valid_page_size) => last.err # "InvalidPageSize"

\* C16 witness: InvalidPageSize on a closed day, where a valid page_size is
\* rejected for another reason.
C16_Witness ==
  /\ last.called /\ last.err = "InvalidPageSize"
  /\ progress.day_completed
  /\ progress.pagination_cursor > 0

\* current_day_claimed as the page of the last call found it
ClaimedIn ==
  IF last.reset_done THEN last.before.treasury ELSE Before.current_day_claimed

\* eligible_bps of the locked total the last call read
ReadBps ==
  LET f_locked == IF policy.total_investor_allocation = Num(0) THEN Num(0)
                  ELSE Least(Div(Mul(last.page_locked, Num(10000)),
                                 policy.total_investor_allocation),
                             Num(10000))
  IN  Least(Num(policy.investor_fee_share_bps), f_locked)

\* C17: a call that read a page with locked tokens does not fail with
\* ArithmeticOverflow because current_day_claimed * eligible_bps exceeds
\* 64 bits: eligible_bps <= 10000, so floor(product / 10000) always fits.
C17_WidenedProducts ==
  (/\ last.called /\ last.page_read /\ Lt(Num(0), last.page_locked)
   /\ Le(ReadBps, Num(BASIS_POINTS_DIVISOR))
   /\ MulOverflows(ClaimedIn, ReadBps))
    => last.err # "ArithmeticOverflow"

\* the last call read a page of well-formed entries whose locked amounts
\* are all 0
ZeroLockedPage ==
  /\ last.called /\ last.page_read
  /\ last.page_input # "malformed"
  /\ last.page_locked = Num(0)

\* C18: a page whose investors all have locked amount 0 commits without any
\* transfer to an investor, leaves carry_over_dust and
\* current_day_distributed_investors as the page found them, advances
\* pagination_cursor, and closes the day with the creator remainder payout
\* when the cursor reaches total_investors.
C18_ZeroLockedPageCommits ==
  ZeroLockedPage =>
    /\ last.err = "Ok"
    /\ investor_balance = last.before.investor_balance
    /\ progress.carry_over_dust = DustIn
    /\ progress.current_day_distributed_investors = DistributedIn
    /\ progress.pagination_cursor > StartIdx
    /\ progress.pagination_cursor <= progress.total_investors
    /\ progress.day_completed
         = (progress.pagination_cursor = progress.total_investors)
    /\ last.remainder_invoked = progress.day_completed
    /\ progress.day_completed =>
         /\ Sub(creator_balance, last.before.creator_balance)
              = progress.current_day_distributed_creator
         /\ progress.current_day_distributed_creator
              = Least(saturating_sub(progress.current_day_claimed,
                                     progress.current_day_distributed_investors),
                      last.before.treasury)

\* C18 witness: a zero-locked page that continues a day holding dust, and
\* closes it with a payout to the creator.
C18_Witness ==
  /\ ZeroLockedPage
  /\ ~last.reset_done
  /\ Lt(Num(0), Before.carry_over_dust)
  /\ progress.carry_over_dust = Before.carry_over_dust
  /\ progress.day_completed
  /\ Lt(Num(0), creator_balance)

\* C19: a distribute call invokes the fee claim only when it opens a new
\* day, at least SECONDS_PER_DAY after last_distribution_ts and with the
\* cursor at 0, never when it continues the pagination of an open day; a
\* committed claiming call stores its own time in last_distribution_ts and
\* no other call changes it, so two committed claims are at least
\* SECONDS_PER_DAY apart.
C19_ClaimOncePerEpoch ==
  [][(deposits' = deposits) =>
       /\ last'.claim_invoked =>
            /\ last'.reset_done
            /\ last'.ts >= progress.last_distribution_ts + SECONDS_PER_DAY
            /\ progress.pagination_cursor = 0
       /\ (last'.claim_invoked /\ last'.err = "Ok") =>
            /\ progress'.last_distribution_ts = last'.ts
            /\ day_log'.fee_claims = 1
       /\ ~(last'.claim_invoked /\ last'.err = "Ok") =>
            /\ progress'.last_distribution_ts = progress.last_distribution_ts
            /\ day_log'.fee_claims = day_log.fee_claims
       /\ (last'.ts < progress.last_distribution_ts + SECONDS_PER_DAY
             \/ progress.pagination_cursor > 0) => ~last'.claim_invoked]_vars

\* C19 witness: a committed page that continues the day opened by the
\* committed claiming call, without a second claim.
C19_Witness ==
  /\ last.called /\ last.err = "Ok"
  /\ ~last.claim_invoked
  /\ Before.pagination_cursor > 0
  /\ day_log.fee_claims = 1
  /\ day_log.pages = 2
  /\ progress.last_distribution_ts >= SECONDS_PER_DAY
  /\ last.ts >= progress.last_distribution_ts

\* what a distribute call pays to the investors when the snapshot holds
\* `dust` as carry_over_dust: the investors' balances after the call
DustRun(dust, current_ts, call, overflow_checks) ==
  LET before == AccountState([progress EXCEPT !.carry_over_dust = dust],
                             treasury, investor_balance, creator_balance)
      run == handler(policy, before, current_ts, call[1],
                     read_streamflow_locked_amount(streams, call[2]),
                     overflow_checks)
  IN  Commit(run, before).investor_balance

\* C20: a call on the accounts as they are and the same call on a snapshot
\* that differs only in holding no carry_over_dust pay the same investors
\* the same amounts: the dust never changes a payout and never makes the
\* 'payout > available' stop skip an investor.
C20_DustNeverPaid ==
  \A call \in CallInputs, current_ts \in CallTimes(clock) :
    past_the_page(progress, call[1], call[2]) =>
      \A overflow_checks \in overflow_builds(progress) :
        DustRun(progress.carry_over_dust, current_ts, call, overflow_checks)
          = DustRun(Num(0), current_ts, call, TRUE)

\* the entries of the investors at [cursor, cursor + count)
PageEntries(cursor, count) ==
  [k \in 1..count |-> [ata |-> cursor + k, ok |-> TRUE]]

\* the run of one distribute call at current_ts on the accounts a, with
\* page_size and the entries of its page, in the build overflow_checks
PageRun(a, current_ts, page_size, overflow_checks) ==
  handler(policy, a, current_ts, page_size,
          read_streamflow_locked_amount(
            streams,
            PageEntries(a.progress.pagination_cursor,
                        Min(page_size,
                            a.progress.total_investors
                              - a.progress.pagination_cursor))),
          overflow_checks)

\* the accounts after successive distribute calls at current_ts, one per
\* page size of `sizes`, each with the entries of its page
RECURSIVE DayRun(_, _, _, _)
DayRun(a, current_ts, sizes, overflow_checks) ==
  IF sizes = <<>> THEN a
  ELSE DayRun(Commit(PageRun(a, current_ts, Head(sizes), overflow_checks), a),
              current_ts, Tail(sizes), overflow_checks)

\* what those calls returned
RECURSIVE DayErrors(_, _, _, _)
DayErrors(a, current_ts, sizes, overflow_checks) ==
  IF sizes = <<>> THEN {}
  ELSE {PageRun(a, current_ts, Head(sizes), overflow_checks).err}
         \cup DayErrors(Commit(PageRun(a, current_ts, Head(sizes),
                                       overflow_checks), a),
                        current_ts, Tail(sizes), overflow_checks)

RECURSIVE SeqSum(_)
SeqSum(s) == IF s = <<>> THEN 0 ELSE Head(s) + SeqSum(Tail(s))

\* the ways to split n investors into pages
PageSplits(n) == {s \in SeqsUpTo(1..n, n) : SeqSum(s) = n}

\* the last call was made on Progress as initialize left it
DayNotOpened ==
  /\ progress = initial_progress(progress.total_investors)
  /\ progress.total_investors > 0
  /\ clock >= SECONDS_PER_DAY

\* C21: from the accounts before the day opens, the day completed in one
\* page and the day completed in any split into pages leave every investor
\* and the creator with the same balances, in either build.
C21_PaginationIndependent ==
  DayNotOpened =>
    \A sizes \in PageSplits(progress.total_investors), overflow_checks \in BOOLEAN :
      LET accounts == AccountState(progress, treasury, investor_balance,
                                   creator_balance)
          whole == DayRun(accounts, clock, <<progress.total_investors>>,
                          overflow_checks)
          split == DayRun(accounts, clock, sizes, overflow_checks)
      IN  (whole.progress.day_completed /\ split.progress.day_completed) =>
            /\ split.investor_balance = whole.investor_balance
            /\ split.creator_balance = whole.creator_balance

\* a day has been opened
DayOpened == progress.last_distribution_ts >= SECONDS_PER_DAY

\* every deposit reached the treasury before the day's fee claim: the claim
\* returned all that was ever deposited
NoLateDeposit ==
  \A amount \in DepositAmounts :
    progress.current_day_claimed = Mul(Num(deposits), amount)

\* C22: when nothing reaches the treasury after the day's fee claim, what
\* has left the treasury since the claim is current_day_distributed_investors
\* + current_day_distributed_creator in every state, and on a completed day
\* that sum is current_day_claimed and the treasury is empty.
C22_ClaimedAccountedFor ==
  (DayOpened /\ NoLateDeposit) =>
    /\ progress.current_day_claimed
         = Add(treasury, Add(progress.current_day_distributed_investors,
                             progress.current_day_distributed_creator))
    /\ progress.day_completed =>
         /\ Add(progress.current_day_distributed_investors,
                progress.current_day_distributed_creator)
              = progress.current_day_claimed
         /\ treasury = Num(0)

\* C22 witness: a day of two pages is completed, investors and creator have
\* both been paid, and no deposit came after the claim.
C22_Witness ==
  /\ DayOpened /\ NoLateDeposit
  /\ progress.day_completed
  /\ day_log.pages = 2
  /\ Lt(Num(0), progress.current_day_distributed_investors)
  /\ Lt(Num(0), progress.current_day_distributed_creator)
  /\ treasury = Num(0)

\* the accounts after j distribute calls with page_size p and the entries
\* of each page: the first at the present time, the others at current_ts
AfterCalls(j, p, current_ts, overflow_checks) ==
  LET accounts == AccountState(progress, treasury, investor_balance,
                               creator_balance)
  IN  IF j = 0 THEN accounts
      ELSE DayRun(DayRun(accounts, clock, <<p>>, overflow_checks), current_ts,
                  [i \in 1..(j - 1) |-> p], overflow_checks)

\* what the j calls of AfterCalls returned
CallErrors(j, p, current_ts, overflow_checks) ==
  LET accounts == AccountState(progress, treasury, investor_balance,
                               creator_balance)
  IN  IF j = 0 THEN {}
      ELSE DayErrors(accounts, clock, <<p>>, overflow_checks)
             \cup DayErrors(DayRun(accounts, clock, <<p>>, overflow_checks),
                            current_ts, [i \in 1..(j - 1) |-> p],
                            overflow_checks)

\* the errors of a collaborator: the lock oracle's stream account cannot be
\* read, or the token program rejects a transfer
CollaboratorErrors == {"InvalidStreamAccount", "InsufficientFunds"}

\* ceil(n / p)
CeilDiv(n, p) == (n + p - 1) \div p

\* the valid page sizes tried: up to one more than the investor set, and
\* the largest
RepeatedPageSizes == (1..(MaxInvestors + 1)) \cup {MAX_PAGE_SIZE}

\* C23: from the accounts as initialize left them with total_investors > 0,
\* repeated calls with a valid page_size p and the entries of each page,
\* all before the next day is due and none failing in a collaborator, each
\* commit and advance the cursor by min(p, total_investors - cursor), and
\* the day is completed after exactly ceil(total_investors / p) calls, in
\* either build.
C23_DayCompletes ==
  DayNotOpened =>
    \A p \in RepeatedPageSizes, current_ts \in {clock, clock + TickStep},
       overflow_checks \in BOOLEAN :
      \A j \in 1..CeilDiv(progress.total_investors, p) :
        LET done == AfterCalls(j, p, current_ts, overflow_checks).progress
        IN  CallErrors(j, p, current_ts, overflow_checks)
              \cap CollaboratorErrors = {} =>
              /\ done.pagination_cursor = Min(j * p, progress.total_investors)
              /\ done.day_completed = (j = CeilDiv(progress.total_investors, p))

====
